---- MODULE Spec2Model ----
(***************************************************************************)
(* falafel: a protoc plugin that plans, per schema file, service and       *)
(* method, which template is rendered into which generated file.           *)
(*                                                                         *)
(* A Go string is modelled as a sequence of one-character strings, so that *)
(* strings.Index, strings.Split, strings.Replace and slicing are computed  *)
(* character by character.  Positions handed to the Go helpers below are   *)
(* 0-based, as in Go.  A Go map[string]string is a function whose domain   *)
(* is the set of keys present; a missing key reads as "" (Get).            *)
(***************************************************************************)
EXTENDS Integers, Sequences, FiniteSets, TLC

VARIABLES
    \* ---- parseParams / split (ParseSpec)
    parameter,   \* the string handed to the parser
    delim,       \* "," for parseParams, " " for split(lis, " ")
    parsed,      \* the map returned
    ppc,         \* "ready" | "done"
    \* ---- extractComments (DocSpec, and per file in Spec)
    loc,         \* LeadingComments of the location last visited
    li,          \* number of locations visited
    stored,      \* the last iteration reached godoc[method] = c
    godoc,       \* the godoc map
    \* ---- main / genMobileStubs / genJSStubs / genMemRPC (Spec)
    param,       \* the parsed plugin parameters
    files,       \* gen.Files
    fi,          \* index of the file main is at (1-based)
    si,          \* index of the service the stub generator is at
    mi,          \* index of the method genMobileStubs is at
    pc,          \* position of the run
    fatal,       \* message of the log.Fatal that ended the run, or ""
    emitted      \* every template execution so far, in order

vars == <<parameter, delim, parsed, ppc, loc, li, stored, godoc,
          param, files, fi, si, mi, pc, fatal, emitted>>

parseVars == <<parameter, delim, parsed, ppc>>
docVars == <<loc, li, stored>>
planVars == <<param, files, fi, si, mi, pc, fatal, emitted>>

----------------------------------------------------------------------------
(* Bounds of the model. *)

MaxParamLen == 4     \* longest parameter string handed to the parsers
MaxRawLen == 6       \* longest raw leading comment
MaxLocs == 1         \* source locations visited by one extractComments loop
MaxFiles == 2        \* schema files in one plugin request

----------------------------------------------------------------------------
(* Go string and map helpers. *)

RECURSIVE StringsUpTo(_, _)
StringsUpTo(alphabet, n) ==
    IF n = 0 THEN {<<>>}
    ELSE LET shorter == StringsUpTo(alphabet, n - 1)
         IN shorter \cup {Append(s, ch) : s \in shorter, ch \in alphabet}

Range(s) == {s[k] : k \in 1..Len(s)}

\* s[a:b] and s[a:]
Slice(s, a, b) == SubSeq(s, a + 1, b)
SliceFrom(s, a) == SubSeq(s, a + 1, Len(s))

\* strings.Index(s, ch) for a one-byte ch: first 0-based position, or -1
RECURSIVE IndexFrom(_, _, _)
IndexFrom(s, ch, j) ==
    IF j >= Len(s) THEN -1
    ELSE IF s[j + 1] = ch THEN j
    ELSE IndexFrom(s, ch, j + 1)

Index(s, ch) == IndexFrom(s, ch, 0)

\* strings.LastIndex(s, ch) for a one-byte ch
RECURSIVE LastIndexFrom(_, _, _)
LastIndexFrom(s, ch, j) ==
    IF j < 0 THEN -1
    ELSE IF s[j + 1] = ch THEN j
    ELSE LastIndexFrom(s, ch, j - 1)

LastIndex(s, ch) == LastIndexFrom(s, ch, Len(s) - 1)

\* strings.Split(s, sep) for a one-byte sep
RECURSIVE Split(_, _)
Split(s, sep) ==
    LET i == Index(s, sep)
    IN IF i < 0 THEN <<s>>
       ELSE <<Slice(s, 0, i)>> \o Split(SliceFrom(s, i + 1), sep)

\* strings.Replace(s, old, new, -1) for a non-empty old
RECURSIVE Replace(_, _, _)
Replace(s, old, new) ==
    IF Len(s) < Len(old) THEN s
    ELSE IF SubSeq(s, 1, Len(old)) = old
         THEN new \o Replace(SubSeq(s, Len(old) + 1, Len(s)), old, new)
         ELSE <<Head(s)>> \o Replace(Tail(s), old, new)

EmptyMap == [k \in {} |-> <<>>]
Put(m, k, v) == [x \in (DOMAIN m) \cup {k} |-> IF x = k THEN v ELSE m[x]]
Get(m, k) == IF k \in DOMAIN m THEN m[k] ELSE <<>>

----------------------------------------------------------------------------
(* parseParams and split. *)

\* the token loop of parseParams, splitting a token at its last "="
RECURSIVE parseParamsLoopLastEq(_, _)
parseParamsLoopLastEq(toks, m) ==
    IF toks = <<>> THEN m
    ELSE LET p == Head(toks)
             i == LastIndex(p, "=")
         IN parseParamsLoopLastEq(Tail(toks),
                IF i < 0 THEN Put(m, p, <<>>)
                ELSE Put(m, Slice(p, 0, i), SliceFrom(p, i + 1)))

\* the token loop of parseParams
RECURSIVE parseParamsLoop(_, _)
parseParamsLoop(toks, m) ==
    IF toks = <<>> THEN m
    ELSE LET p == Head(toks)
             i == Index(p, "=")
         IN parseParamsLoop(Tail(toks),
                IF i < 0 THEN Put(m, p, <<>>)
                ELSE Put(m, Slice(p, 0, i), SliceFrom(p, i + 1)))

parseParams(s) ==
    IF s = <<>> THEN EmptyMap
    ELSE parseParamsLoop(Split(s, ","), EmptyMap)

\* the token loop of split
RECURSIVE splitLoop(_, _)
splitLoop(toks, m) ==
    IF toks = <<>> THEN m
    ELSE LET p == Head(toks)
             i == Index(p, "=")
         IN splitLoop(Tail(toks),
                IF i < 0 THEN Put(m, p, <<>>)
                ELSE Put(m, Slice(p, 0, i), SliceFrom(p, i + 1)))

split(s, c) ==
    IF s = <<>> THEN EmptyMap
    ELSE splitLoop(Split(s, c), EmptyMap)

----------------------------------------------------------------------------
(* extractComments: one iteration of the loop over the source locations.   *)

\* i := 0; for j := range c { if c[j] == ch { i = j; break } }
FirstOrZero(c, ch) ==
    LET i == Index(c, ch) IN IF i < 0 THEN 0 ELSE i

CommentPrefix == <<"/", "/", " ">>

\* what one location does to godoc: [stored, method, doc]
NoEntry == [stored |-> FALSE, method |-> <<>>, doc |-> <<>>]

\* extractLocation with the length guard one short
extractLocationShortGuard(raw) ==
    IF raw = <<>> THEN NoEntry
    ELSE LET c1 == SliceFrom(raw, FirstOrZero(raw, "\n") + 1)
             method == Slice(c1, 0, FirstOrZero(c1, " "))
             c2 == Replace(c1, <<"\n">>, <<"\n", "/", "/", " ">>)
             c3 == Replace(c2, <<" ", "\n", "/", "/">>, <<"\n", "/", "/">>)
         IN IF Len(c3) < 3 THEN NoEntry
            ELSE [stored |-> TRUE, method |-> method,
                  doc |-> CommentPrefix \o Slice(c3, 0, Len(c3) - 4)]

extractLocation(raw) ==
    IF raw = <<>> THEN NoEntry
    ELSE LET c1 == SliceFrom(raw, FirstOrZero(raw, "\n") + 1)
             method == Slice(c1, 0, FirstOrZero(c1, " "))
             c2 == Replace(c1, <<"\n">>, <<"\n", "/", "/", " ">>)
             c3 == Replace(c2, <<" ", "\n", "/", "/">>, <<"\n", "/", "/">>)
         IN IF Len(c3) < 4 THEN NoEntry
            ELSE [stored |-> TRUE, method |-> method,
                  doc |-> CommentPrefix \o Slice(c3, 0, Len(c3) - 4)]

\* the whole loop, over the leading comments of a file's locations
RECURSIVE extractComments(_, _)
extractComments(comments, m) ==
    IF comments = <<>> THEN m
    ELSE LET r == extractLocation(Head(comments))
         IN extractComments(Tail(comments),
                IF r.stored THEN Put(m, r.method, r.doc) ELSE m)

----------------------------------------------------------------------------
(* The schema handed to the plugin, and the parameters.                    *)

One == <<"1">>

UpperCaseLetters ==
    <<"A", "B", "C", "D", "E", "F", "G", "H", "I", "J", "K", "L", "M",
      "N", "O", "P", "Q", "R", "S", "T", "U", "V", "W", "X", "Y", "Z">>
LowerCaseLetters ==
    <<"a", "b", "c", "d", "e", "f", "g", "h", "i", "j", "k", "l", "m",
      "n", "o", "p", "q", "r", "s", "t", "u", "v", "w", "x", "y", "z">>

\* strings.ToLower
ToLower(s) ==
    [k \in 1..Len(s) |->
        IF \E u \in DOMAIN UpperCaseLetters : UpperCaseLetters[u] = s[k]
        THEN LowerCaseLetters[CHOOSE u \in DOMAIN UpperCaseLetters :
                                  UpperCaseLetters[u] = s[k]]
        ELSE s[k]]

versionString == "falafel 0.9.1"

Method(name, path, input, client, server) ==
    [GoName |-> name, InputImportPath |-> path, InputGoName |-> input,
     IsStreamingClient |-> client, IsStreamingServer |-> server]

Service(name, methods) == [GoName |-> name, Methods |-> methods]

File(generate, path, proto, comments, services) ==
    [Generate |-> generate, GoImportPath |-> path, ProtoName |-> proto,
     Comments |-> comments, Services |-> services]

ForeignPath == <<"x", "/", "q">>
Req == <<"R">>

\* the schema files a request is drawn from; each has its own import path,
\* whose last segment is the package "p"
FilePool ==
    { File(TRUE, <<"a", "/", "p">>, "a.proto",
           << <<"x", "\n", "G", " ", "a", "\n">> >>,
           << Service(<<"F">>,
                << Method(<<"G">>, <<"a", "/", "p">>, Req, FALSE, FALSE),
                   Method(<<"S">>, ForeignPath, Req, FALSE, TRUE) >>) >>),
      File(TRUE, <<"b", "/", "p">>, "b.proto",
           << <<"x", "\n", "S", " ", " ", "\n", "a", "\n">>,
              <<"\n", "S", "\n">> >>,
           << Service(<<"F">>,
                << Method(<<"S">>, <<"b", "/", "p">>, Req, FALSE, TRUE) >>),
              Service(<<"B">>,
                << Method(<<"B">>, ForeignPath, Req, TRUE, TRUE) >>) >>),
      File(TRUE, <<"c", "/", "p">>, "c.proto",
           <<>>,
           << Service(<<"B">>,
                << Method(<<"G">>, <<"c", "/", "p">>, Req, FALSE, FALSE),
                   Method(<<"C">>, <<"c", "/", "p">>, Req, TRUE, FALSE),
                   Method(<<"S">>, ForeignPath, Req, FALSE, TRUE) >>) >>),
      File(FALSE, <<"d", "/", "p">>, "d.proto",
           << <<"x", "\n", "G", " ", "a", "\n">> >>,
           << Service(<<"F">>,
                << Method(<<"G">>, <<"d", "/", "p">>, Req, FALSE, FALSE) >>) >>),
      File(TRUE, <<"e", "/", "p">>, "e.proto", <<>>, <<>>) }

\* the requests: up to MaxFiles different files of the pool, in any order
Requests ==
    UNION { { fs \in [1..n -> FilePool] :
                \A a, b \in 1..n : a # b => fs[a] # fs[b] } : n \in 0..MaxFiles }

PackageNames == {<<>>, <<"p">>}
TargetPackages ==
    {<<>>, <<"t">>, <<"/", "t">>, <<"a", "/", "t">>, <<"x", "/", "q">>}
ListenerStrings ==
    { <<>>,
      <<"f", "=", "L">>,
      <<"f", "=", "L", " ", "b", "=", "L">>,
      <<"b", "=", "M", " ", "f", "=", "L">>,
      <<"f", "=", " ", "b", "=", "M">>,
      <<"f", "=", "K", " ", "f", "=", "L">> }
DefaultListeners == {<<>>, <<"D">>}
Switches == {<<>>, One}

\* the maps parseParams can return over the keys the generators read
Params ==
    { [package_name |-> pn, target_package |-> tp, listeners |-> ls,
       defaultlistener |-> dl, api_prefix |-> ap, js_stubs |-> js,
       mem_rpc |-> mr] :
        pn \in PackageNames, tp \in TargetPackages, ls \in ListenerStrings,
        dl \in DefaultListeners, ap \in Switches, js \in Switches,
        mr \in Switches }

----------------------------------------------------------------------------
(* The pure parts of genMobileStubs, genJSStubs and genMemRPC.             *)

\* targetName: the text of target_package after its last "/"
targetNameOf(targetPkg) ==
    LET i == LastIndex(targetPkg, "/")
    IN IF i > 0 THEN SliceFrom(targetPkg, i + 1) ELSE <<>>

\* resolveListener with the default taking precedence over the entry
resolveListenerDefaultFirst(listeners, defaultLis, n) ==
    LET listener == Get(listeners, n)
    IN IF defaultLis # <<>> THEN defaultLis ELSE listener

\* listener := listeners[n]; if listener == "" { ... listener = defaultLis }
resolveListener(listeners, defaultLis, n) ==
    LET listener == Get(listeners, n)
    IN IF listener = <<>> THEN defaultLis ELSE listener

\* inputTypeOf with the whole import path compared with pkg
inputTypeOfWholePath(method, pkg) ==
    LET path == Split(method.InputImportPath, "/")
        inputPkg == path[Len(path)]
    IN IF method.InputImportPath # pkg
       THEN inputPkg \o <<".">> \o method.InputGoName
       ELSE method.InputGoName

\* the input type's name, with its package prepended when it is not pkg;
\* strings.Split never returns an empty slice, so len(path) == 0 is dead
inputTypeOf(method, pkg) ==
    LET path == Split(method.InputImportPath, "/")
        inputPkg == path[Len(path)]
    IN IF inputPkg # pkg
       THEN inputPkg \o <<".">> \o method.InputGoName
       ELSE method.InputGoName

\* methodTemplate with the last case taken for every client stream
methodTemplateAnyClient(clientStream, serverStream) ==
    CASE ~clientStream /\ ~serverStream -> "sync"
      [] ~clientStream /\ serverStream -> "readStream"
      [] clientStream -> "biStream"
      [] OTHER -> ""

\* the switch over (clientStream, serverStream); "" is the default branch
methodTemplate(clientStream, serverStream) ==
    CASE ~clientStream /\ ~serverStream -> "sync"
      [] ~clientStream /\ serverStream -> "readStream"
      [] clientStream /\ serverStream -> "biStream"
      [] OTHER -> ""

\* jsMethods with the continue taken on serverStream instead of clientStream
RECURSIVE jsMethodsSkipServer(_, _, _)
jsMethodsSkipServer(service, pkg, k) ==
    IF k > Len(service.Methods) THEN <<>>
    ELSE LET method == service.Methods[k]
             p == [MethodName |-> method.GoName,
                   ServiceName |-> service.GoName,
                   RequestType |-> inputTypeOf(method, pkg),
                   ResponseStreaming |-> method.IsStreamingServer]
         IN IF method.IsStreamingServer
            THEN jsMethodsSkipServer(service, pkg, k + 1)
            ELSE <<p>> \o jsMethodsSkipServer(service, pkg, k + 1)

\* the loop of genJSStubs over service.Methods, building params.Methods
RECURSIVE jsMethods(_, _, _)
jsMethods(service, pkg, k) ==
    IF k > Len(service.Methods) THEN <<>>
    ELSE LET method == service.Methods[k]
             p == [MethodName |-> method.GoName,
                   ServiceName |-> service.GoName,
                   RequestType |-> inputTypeOf(method, pkg),
                   ResponseStreaming |-> method.IsStreamingServer]
         IN IF method.IsStreamingClient
            THEN jsMethods(service, pkg, k + 1)
            ELSE <<p>> \o jsMethods(service, pkg, k + 1)

\* usedListeners without the skip of listeners already added
RECURSIVE usedListenersNoSkip(_, _, _)
usedListenersNoSkip(keys, listeners, used) ==
    IF keys = <<>> THEN used
    ELSE usedListenersNoSkip(Tail(keys), listeners,
             Append(used, listeners[Head(keys)]))

\* usedListeners leaving out an entry without a value
RECURSIVE usedListenersSkipEmpty(_, _, _)
usedListenersSkipEmpty(keys, listeners, used) ==
    IF keys = <<>> THEN used
    ELSE LET listener == listeners[Head(keys)]
         IN usedListenersSkipEmpty(Tail(keys), listeners,
                IF listener \in Range(used) \/ listener = <<>> THEN used
                ELSE Append(used, listener))

\* the loop of genMemRPC over the listeners map, visited in the order keys
RECURSIVE usedListeners(_, _, _)
usedListeners(keys, listeners, used) ==
    IF keys = <<>> THEN used
    ELSE LET listener == listeners[Head(keys)]
         IN usedListeners(Tail(keys), listeners,
                IF listener \in Range(used) THEN used
                ELSE Append(used, listener))

\* the orders in which a range over a Go map may visit its keys
IterationOrders(m) ==
    { order \in [1..Cardinality(DOMAIN m) -> DOMAIN m] :
        \A a, b \in DOMAIN order : a # b => order[a] # order[b] }

\* one template.Execute into the generated file filename of a schema file
Instr(template, filename, importPath, params) ==
    [template |-> template, filename |-> filename,
     importPath |-> importPath, params |-> params]

----------------------------------------------------------------------------
(* Values the variables of one specification hold while another runs. *)

ParseIdle ==
    /\ parameter = <<>> /\ delim = "," /\ parsed = EmptyMap /\ ppc = "idle"

DocIdle ==
    /\ loc = <<>> /\ li = 0 /\ stored = FALSE

PlanIdle ==
    /\ param = EmptyMap /\ files = <<>> /\ fi = 0 /\ si = 0 /\ mi = 0
    /\ pc = "idle" /\ fatal = "" /\ emitted = <<>>

----------------------------------------------------------------------------
(* Spec: one run of main over the files of a request.                      *)

Init ==
    /\ param \in Params
    /\ files \in Requests
    /\ fi = 1 /\ si = 0 /\ mi = 0
    /\ pc = "main" /\ fatal = "" /\ emitted = <<>>
    /\ godoc = EmptyMap
    /\ ParseIdle /\ DocIdle

pkg == Get(param, "package_name")
targetPkg == Get(param, "target_package")
defaultLis == Get(param, "defaultlistener")
buildTags == Get(param, "build_tags")
manualImport == Get(param, "manual_import")
apiPrefix == Get(param, "api_prefix") = One
jsStubs == Get(param, "js_stubs") = One
memRPCKeyPresent == "mem_rpc" \in DOMAIN param
memRPC == Get(param, "mem_rpc") = One
listenersMap == split(Get(param, "listeners"), " ")

file == files[fi]
service == file.Services[si]
method == service.Methods[mi]

apiFilename(n) == <<"./", n, "_api_generated.go">>
jsFilename(n) == <<"./", n, ".pb.json.go">>
memrpcFilename == <<"./memrpc_generated.go">>
lisFilename == <<"./listeners_generated.go">>

\* a fatal that only logs at an unsupported method: the loop goes on
FatalLogsOnly(msg) ==
    /\ fatal' = msg
    /\ IF pc = "mobile_method"
       THEN mi' = mi + 1 /\ pc' = pc
       ELSE mi' = mi /\ pc' = "exit"
    /\ UNCHANGED <<emitted, fi, si>>

\* log.Fatal: the process exits
Fatal(msg) ==
    /\ fatal' = msg
    /\ pc' = "exit"
    /\ UNCHANGED <<emitted, fi, si, mi>>

\* if !f.Generate { continue }
SkipFile ==
    /\ pc = "main" /\ fi <= Len(files) /\ ~file.Generate
    /\ fi' = fi + 1
    /\ UNCHANGED <<param, files, si, mi, pc, fatal, emitted, godoc,
                   parseVars, docVars>>

\* godoc := extractComments(f), then the choice of the stub generator
ExtractComments ==
    /\ pc = "main" /\ fi <= Len(files) /\ file.Generate
    /\ godoc' = extractComments(file.Comments, EmptyMap)
    /\ pc' = IF jsStubs THEN "js" ELSE "mobile"
    /\ UNCHANGED <<param, files, fi, si, mi, fatal, emitted,
                   parseVars, docVars>>

\* the loop over gen.Files is over: the plugin returns nil
Return ==
    /\ pc = "main" /\ fi > Len(files)
    /\ pc' = "done"
    /\ UNCHANGED <<param, files, fi, si, mi, fatal, emitted, godoc,
                   parseVars, docVars>>

\* genMobileStubs up to its loop over file.Services
MobileSetup ==
    /\ pc = "mobile"
    /\ IF pkg = <<>> THEN Fatal("package name not set")
       ELSE IF targetPkg = <<>> THEN Fatal("target package not set")
       ELSE /\ pc' = "mobile_service"
            /\ si' = 1 /\ mi' = 0
            /\ UNCHANGED <<fatal, emitted, fi>>
    /\ UNCHANGED <<param, files, godoc, parseVars, docVars>>

\* one service: its listener, the header and the service template
MobileService ==
    /\ pc = "mobile_service" /\ si <= Len(file.Services)
    /\ LET name == service.GoName
           n == ToLower(name)
           listener == resolveListener(listenersMap, defaultLis, n)
           filename == apiFilename(n)
           header == Instr("header", filename, file.GoImportPath,
                        [ToolName |-> versionString, FileName |-> filename,
                         Package |-> pkg, TargetPkg |-> targetPkg,
                         BuildTags |-> buildTags])
           scaffold == Instr("service", filename, file.GoImportPath,
                          [ServiceName |-> name,
                           TargetName |-> targetNameOf(targetPkg),
                           Listener |-> listener])
       IN IF Get(listenersMap, n) = <<>> /\ defaultLis = <<>>
          THEN Fatal("no listener set for service")
          ELSE /\ emitted' = emitted \o <<header, scaffold>>
               /\ mi' = 1
               /\ pc' = "mobile_method"
               /\ UNCHANGED <<fatal, fi, si>>
    /\ UNCHANGED <<param, files, godoc, parseVars, docVars>>

\* one method: the template its streaming flags select
MobileMethod ==
    /\ pc = "mobile_method" /\ mi <= Len(service.Methods)
    /\ LET methodName == method.GoName
           rpcParams == [ServiceName |-> service.GoName,
                         MethodName |-> methodName,
                         RequestType |-> inputTypeOf(method, pkg),
                         Comment |-> Get(godoc, methodName),
                         ApiPrefix |-> IF apiPrefix THEN service.GoName
                                       ELSE <<>>]
           template == methodTemplate(method.IsStreamingClient,
                                      method.IsStreamingServer)
       IN IF template = ""
          THEN Fatal("unexpected method type")
          ELSE /\ emitted' = Append(emitted,
                     Instr(template, apiFilename(ToLower(service.GoName)),
                           file.GoImportPath, rpcParams))
               /\ mi' = mi + 1
               /\ UNCHANGED <<fatal, pc, fi, si>>
    /\ UNCHANGED <<param, files, godoc, parseVars, docVars>>

\* the loop over service.Methods is over: on to the next service
MobileMethodsDone ==
    /\ pc = "mobile_method" /\ mi > Len(service.Methods)
    /\ si' = si + 1 /\ mi' = 0
    /\ pc' = "mobile_service"
    /\ UNCHANGED <<param, files, fi, fatal, emitted, godoc,
                   parseVars, docVars>>

\* the loop over file.Services is over: genMobileStubs returns
MobileServicesDone ==
    /\ pc = "mobile_service" /\ si > Len(file.Services)
    /\ pc' = "memrpc"
    /\ UNCHANGED <<param, files, fi, si, mi, fatal, emitted, godoc,
                   parseVars, docVars>>

\* genJSStubs up to its loop over file.Services
JSSetup ==
    /\ pc = "js"
    /\ IF pkg = <<>> THEN Fatal("package name not set")
       ELSE /\ pc' = "js_service"
            /\ si' = 1 /\ mi' = 0
            /\ UNCHANGED <<fatal, emitted, fi>>
    /\ UNCHANGED <<param, files, godoc, parseVars, docVars>>

\* one service: its methods collected, then the one jsTemplate
JSService ==
    /\ pc = "js_service" /\ si <= Len(file.Services)
    /\ LET name == service.GoName
           params == [ToolName |-> versionString,
                      FileName |-> file.ProtoName,
                      ServiceName |-> name,
                      Package |-> pkg,
                      ManualImport |-> manualImport,
                      BuildTag |-> buildTags,
                      Methods |-> jsMethods(service, pkg, 1)]
       IN emitted' = Append(emitted,
              Instr("js", jsFilename(ToLower(name)), file.GoImportPath,
                    params))
    /\ si' = si + 1
    /\ UNCHANGED <<param, files, fi, mi, pc, fatal, godoc,
                   parseVars, docVars>>

\* the loop over file.Services is over: genJSStubs returns
JSServicesDone ==
    /\ pc = "js_service" /\ si > Len(file.Services)
    /\ pc' = "memrpc"
    /\ UNCHANGED <<param, files, fi, si, mi, fatal, emitted, godoc,
                   parseVars, docVars>>

\* if param["mem_rpc"] == "1" { genMemRPC(gen, f, param) }, next file
GenMemRPC ==
    /\ pc = "memrpc" /\ memRPC
    /\ IF pkg = <<>> THEN Fatal("package name not set")
       ELSE \E order \in IterationOrders(listenersMap) :
              LET memrpc == Instr("memRpc", memrpcFilename,
                                file.GoImportPath,
                                [ToolName |-> versionString,
                                 Package |-> pkg])
                  lisp == Instr("listeners", lisFilename,
                              file.GoImportPath,
                              [ToolName |-> versionString,
                               Package |-> pkg,
                               Listeners |->
                                   usedListeners(order, listenersMap, <<>>)])
              IN /\ emitted' = emitted \o <<memrpc, lisp>>
                 /\ fi' = fi + 1 /\ si' = 0 /\ mi' = 0
                 /\ pc' = "main"
                 /\ UNCHANGED fatal
    /\ UNCHANGED <<param, files, godoc, parseVars, docVars>>

\* mem_rpc is not "1": next file
NoMemRPC ==
    /\ pc = "memrpc" /\ ~memRPC
    /\ fi' = fi + 1 /\ si' = 0 /\ mi' = 0
    /\ pc' = "main"
    /\ UNCHANGED <<param, files, fatal, emitted, godoc, parseVars, docVars>>

Next ==
    \/ SkipFile \/ ExtractComments \/ Return
    \/ MobileSetup \/ MobileService \/ MobileMethod
    \/ MobileMethodsDone \/ MobileServicesDone
    \/ JSSetup \/ JSService \/ JSServicesDone
    \/ GenMemRPC \/ NoMemRPC

Spec == Init /\ [][Next]_vars

----------------------------------------------------------------------------
(* ParseSpec: parseParams and split applied to every short string.         *)

ParseAlphabet == {"a", "b", "=", ",", " "}

ParseInit ==
    /\ parameter \in StringsUpTo(ParseAlphabet, MaxParamLen)
    /\ delim \in {",", " "}
    /\ parsed = EmptyMap
    /\ ppc = "ready"
    /\ DocIdle /\ godoc = EmptyMap /\ PlanIdle

\* param := parseParams(gen.Request.GetParameter())
ParseParams ==
    /\ ppc = "ready" /\ delim = ","
    /\ parsed' = parseParams(parameter)
    /\ ppc' = "done"
    /\ UNCHANGED <<parameter, delim, docVars, godoc, planVars>>

\* listeners := split(lis, " ")
SplitListeners ==
    /\ ppc = "ready" /\ delim = " "
    /\ parsed' = split(parameter, " ")
    /\ ppc' = "done"
    /\ UNCHANGED <<parameter, delim, docVars, godoc, planVars>>

ParseNext == ParseParams \/ SplitListeners

ParseSpec == ParseInit /\ [][ParseNext]_vars

----------------------------------------------------------------------------
(* DocSpec: the loop of extractComments over locations whose leading       *)
(* comment is any short text.                                              *)

DocAlphabet == {"a", " ", "\n"}

\* the values of loc.LeadingComments the loop is run on
RawComments == StringsUpTo(DocAlphabet, MaxRawLen)

\* extractLocation, tabulated over those values
extractLocationOf == [raw \in RawComments |-> extractLocation(raw)]

DocInit ==
    /\ loc = <<>> /\ li = 0 /\ stored = FALSE
    /\ godoc = EmptyMap
    /\ ParseIdle /\ PlanIdle

\* one iteration of: for i := 0; i < locations.Len(); i++ { ... }
ExtractLocation ==
    /\ pc = "idle" /\ li < MaxLocs
    /\ \E raw \in RawComments :
          LET r == extractLocationOf[raw]
          IN /\ loc' = raw
             /\ stored' = r.stored
             /\ godoc' = IF r.stored THEN Put(godoc, r.method, r.doc)
                         ELSE godoc
    /\ li' = li + 1
    /\ UNCHANGED <<parseVars, planVars>>

DocNext == ExtractLocation

DocSpec == DocInit /\ [][DocNext]_vars

----------------------------------------------------------------------------
(* C7 *)

\* the maximal delimiter-free stretches of s, as <<first, last>> positions
TokenSpans(s, d) ==
    {sp \in (1..(Len(s) + 1)) \X (0..Len(s)) :
        /\ sp[1] <= sp[2] + 1
        /\ (sp[1] = 1 \/ s[sp[1] - 1] = d)
        /\ (sp[2] = Len(s) \/ s[sp[2] + 1] = d)
        /\ \A k \in sp[1]..sp[2] : s[k] # d}

\* the text of a token before its first "=", or all of it without "="
TokenKey(t) ==
    IF "=" \notin Range(t) THEN t
    ELSE CHOOSE k \in {SubSeq(t, 1, n) : n \in 0..(Len(t) - 1)} :
            "=" \notin Range(k) /\ t[Len(k) + 1] = "="

\* the text of a token after its first "=", or "" without "="
TokenValue(t) ==
    IF "=" \notin Range(t) THEN <<>>
    ELSE SubSeq(t, Len(TokenKey(t)) + 2, Len(t))

GrammarHolds(s, d, m) ==
    IF s = <<>> THEN DOMAIN m = {}
    ELSE LET spans == TokenSpans(s, d)
             tok(sp) == SubSeq(s, sp[1], sp[2])
         IN /\ DOMAIN m = {TokenKey(tok(sp)) : sp \in spans}
            /\ \A sp \in spans :
                  (\A later \in spans :
                      TokenKey(tok(later)) = TokenKey(tok(sp))
                          => later[1] <= sp[1])
                  => m[TokenKey(tok(sp))] = TokenValue(tok(sp))

\* C7: parseParams (delimiter ",") and split(lis, " ") return a map for every
\* input string: the empty map for the empty string, and otherwise one key per
\* delimiter-free token, the key being the token's text before its first "="
\* (the whole token when it has none) and the value all the text after that
\* first "=" (empty when it has none); of several tokens with one key the map
\* holds the last.
C7_ParseSplitsOnFirstEq ==
    ppc = "done" => GrammarHolds(parameter, delim, parsed)

C7_Witness ==
    /\ ppc = "done" /\ delim = ","
    /\ parameter = <<"a", "=", "=", "b">>
    /\ parsed = (<<"a">> :> <<"=", "b">>)

----------------------------------------------------------------------------
(* C8, C10 *)

\* the text of raw after its first newline (raw contains one)
AfterFirstNewline(raw) ==
    LET k == CHOOSE n \in 1..Len(raw) :
                 raw[n] = "\n" /\ \A j \in 1..(n - 1) : raw[j] # "\n"
    IN SubSeq(raw, k + 1, Len(raw))

\* C8: a raw leading comment that contains no newline creates no entry in
\* the godoc index.
C8_NoNewlineNoEntry ==
    (li > 0 /\ "\n" \notin Range(loc)) => ~stored

\* C10 as stated: whenever the text after the first newline of the raw
\* comment is shorter than four characters, no entry is created, whatever
\* that text contains.
C10_Original ==
    (li > 0 /\ "\n" \in Range(loc) /\ Len(AfterFirstNewline(loc)) < 4)
        => ~stored

\* C10 amended: whenever the text after the first newline of the raw comment
\* is shorter than four characters and itself contains no newline, no entry
\* is created.
C10_ShortRemainderDiscarded ==
    (/\ li > 0
     /\ "\n" \in Range(loc)
     /\ Len(AfterFirstNewline(loc)) < 4
     /\ "\n" \notin Range(AfterFirstNewline(loc)))
        => ~stored

C10_Witness ==
    /\ li > 0
    /\ "\n" \in Range(loc)
    /\ Len(AfterFirstNewline(loc)) = 3
    /\ "\n" \notin Range(AfterFirstNewline(loc))
    /\ ~stored
    /\ godoc = EmptyMap

----------------------------------------------------------------------------
(* Where the run is in the schema, read off fi, si and mi.                 *)

RECURSIVE MethodsOf(_, _, _)
MethodsOf(sv, k, upto) ==
    IF k > upto THEN <<>>
    ELSE <<[service |-> sv.GoName, method |-> sv.Methods[k]]>>
         \o MethodsOf(sv, k + 1, upto)

RECURSIVE MethodsOfServices(_, _, _)
MethodsOfServices(svcs, j, upto) ==
    IF j > upto THEN <<>>
    ELSE MethodsOf(svcs[j], 1, Len(svcs[j].Methods))
         \o MethodsOfServices(svcs, j + 1, upto)

RECURSIVE ServicesOfFiles(_, _)
ServicesOfFiles(k, upto) ==
    IF k > upto THEN <<>>
    ELSE (IF files[k].Generate THEN files[k].Services ELSE <<>>)
         \o ServicesOfFiles(k + 1, upto)

InFile == fi <= Len(files) /\ si >= 1
InService == InFile /\ si <= Len(file.Services) /\ mi >= 1

\* the services whose stubs are complete
ServicesPast ==
    ServicesOfFiles(1, fi - 1)
    \o (IF InFile THEN SubSeq(file.Services, 1, si - 1) ELSE <<>>)

\* the services whose listener has been resolved without a fatal
ServicesEntered ==
    ServicesPast \o (IF InService THEN <<service>> ELSE <<>>)

\* the methods the run has gone past, with their service's name
MethodsPast ==
    MethodsOfServices(ServicesPast, 1, Len(ServicesPast))
    \o (IF InService THEN MethodsOf(service, 1, mi - 1) ELSE <<>>)

IsMethodInstr(i) == i.template \in {"sync", "readStream", "biStream"}
IsServiceInstr(i) == i.template = "service"
IsJSInstr(i) == i.template = "js"
IsListenersInstr(i) == i.template = "listeners"
IsMemInstr(i) == i.template \in {"memRpc", "listeners"}

ClientOnly(m) == m.IsStreamingClient /\ ~m.IsStreamingServer

----------------------------------------------------------------------------
(* C1 *)

\* the table of the streaming classifier
TableTemplate(client, server) ==
    IF ~client /\ ~server THEN "sync"
    ELSE IF ~client /\ server THEN "readStream"
    ELSE IF client /\ server THEN "biStream"
    ELSE "unsupported"

\* C1: in native mode the per-method instructions emitted are, in order, one
\* for each method the run has gone past, with the template the table gives
\* for its streaming flags (sync, read stream, bidirectional stream); the run
\* never goes past a client-only streaming method, emits nothing for it, and
\* the fatal "unexpected method type" is raised exactly at such a method.
C1_NativeTemplatePerMethod ==
    ~jsStubs =>
        LET instrs == SelectSeq(emitted, IsMethodInstr)
        IN /\ Len(instrs) = Len(MethodsPast)
           /\ \A k \in 1..Len(MethodsPast) :
                 LET m == MethodsPast[k].method
                 IN /\ instrs[k].template =
                         TableTemplate(m.IsStreamingClient, m.IsStreamingServer)
                    /\ instrs[k].params.MethodName = m.GoName
                    /\ instrs[k].params.ServiceName = MethodsPast[k].service
           /\ (pc = "done" =>
                 \A k \in 1..Len(files) : files[k].Generate =>
                    \A j \in 1..Len(files[k].Services) :
                       \A n \in 1..Len(files[k].Services[j].Methods) :
                          ~ClientOnly(files[k].Services[j].Methods[n]))
           /\ (fatal = "unexpected method type" =>
                 pc = "exit" /\ InService /\ mi <= Len(service.Methods)
                 /\ ClientOnly(method))
           /\ (pc = "mobile_method" /\ mi > 1 => ~ClientOnly(service.Methods[mi - 1]))

C1_Witness ==
    /\ ~jsStubs /\ pc = "done"
    /\ \E a, b, c \in 1..Len(emitted) :
          /\ emitted[a].template = "sync"
          /\ emitted[b].template = "readStream"
          /\ emitted[c].template = "biStream"

C1_WitnessFatal ==
    /\ ~jsStubs /\ fatal = "unexpected method type"
    /\ Len(SelectSeq(emitted, IsMethodInstr)) = 1

----------------------------------------------------------------------------
(* C2 *)

NotClientStreaming(m) == ~m.IsStreamingClient

\* C2: in JS mode the instructions emitted for the services the run has gone
\* past are one jsTemplate instruction per service, in order, whose method
\* list is the service's methods without client streaming, in schema order,
\* each with its response-streaming flag equal to its server-streaming flag;
\* no per-method instruction is emitted and no fatal other than the missing
\* package name is raised.
C2_JSMethodsFiltered ==
    jsStubs =>
        LET instrs == SelectSeq(emitted, IsJSInstr)
        IN /\ Len(instrs) = Len(ServicesPast)
           /\ \A i \in 1..Len(emitted) :
                 IsJSInstr(emitted[i]) \/ IsMemInstr(emitted[i])
           /\ \A k \in 1..Len(ServicesPast) :
                 LET kept == SelectSeq(ServicesPast[k].Methods,
                                       NotClientStreaming)
                     listed == instrs[k].params.Methods
                 IN /\ instrs[k].params.ServiceName = ServicesPast[k].GoName
                    /\ Len(listed) = Len(kept)
                    /\ \A n \in 1..Len(kept) :
                          /\ listed[n].MethodName = kept[n].GoName
                          /\ listed[n].ResponseStreaming
                                = kept[n].IsStreamingServer
           /\ (fatal # "" => fatal = "package name not set" /\ pkg = <<>>)
           /\ (pc = "done" => Len(ServicesPast)
                                = Len(ServicesOfFiles(1, Len(files))))

C2_Witness ==
    /\ jsStubs /\ pc = "done"
    /\ \E k \in 1..Len(ServicesPast) :
          /\ \E n \in 1..Len(ServicesPast[k].Methods) :
                ClientOnly(ServicesPast[k].Methods[n])
          /\ Len(SelectSeq(emitted, IsJSInstr)[k].params.Methods) = 2
    /\ \E k \in 1..Len(ServicesPast) :
          \E n \in 1..Len(ServicesPast[k].Methods) :
             /\ ServicesPast[k].Methods[n].IsStreamingClient
             /\ ServicesPast[k].Methods[n].IsStreamingServer

----------------------------------------------------------------------------
(* C3 *)

\* the listeners configuration read as space-separated key[=value] tokens
ListenerTokens ==
    LET s == Get(param, "listeners")
    IN IF s = <<>> THEN {}
       ELSE {<<sp[1], SubSeq(s, sp[1], sp[2])>> : sp \in TokenSpans(s, " ")}

HasEntry(n) == \E t \in ListenerTokens : TokenKey(t[2]) = n

\* the value of the entry for n: that of the last token with key n
EntryValue(n) ==
    LET t == CHOOSE t \in ListenerTokens :
                 /\ TokenKey(t[2]) = n
                 /\ \A u \in ListenerTokens :
                       TokenKey(u[2]) = n => u[1] <= t[1]
    IN TokenValue(t[2])

\* C3 as stated: an entry for the lower-cased name decides, whatever its value
StatedListener(name) ==
    LET n == ToLower(name)
    IN IF HasEntry(n) THEN EntryValue(n) ELSE defaultLis

\* C3 amended: an entry decides only when its value is not empty
ResolvedListener(name) ==
    LET n == ToLower(name)
    IN IF HasEntry(n) /\ EntryValue(n) # <<>> THEN EntryValue(n)
       ELSE defaultLis

\* C3 as stated: in native mode every service entered carries, in its
\* service instruction, the value of the listeners entry keyed by its
\* lower-cased name when there is such an entry, and defaultListener
\* otherwise; the fatal is raised only when there is no entry and no default.
C3_Original ==
    ~jsStubs =>
        LET instrs == SelectSeq(emitted, IsServiceInstr)
        IN /\ Len(instrs) = Len(ServicesEntered)
           /\ \A k \in 1..Len(ServicesEntered) :
                 instrs[k].params.Listener
                    = StatedListener(ServicesEntered[k].GoName)
           /\ (fatal = "no listener set for service" =>
                 ~HasEntry(ToLower(service.GoName)) /\ defaultLis = <<>>)

\* C3 amended: in native mode every service entered carries, in its service
\* instruction, the value of the listeners entry keyed by its lower-cased
\* name when there is such an entry with a non-empty value, and otherwise
\* the non-empty defaultListener; a service with neither is never entered,
\* and the fatal "no listener set" is raised exactly at such a service.
C3_ListenerResolution ==
    ~jsStubs =>
        LET instrs == SelectSeq(emitted, IsServiceInstr)
        IN /\ Len(instrs) = Len(ServicesEntered)
           /\ \A k \in 1..Len(ServicesEntered) :
                 /\ instrs[k].params.ServiceName = ServicesEntered[k].GoName
                 /\ instrs[k].params.Listener
                       = ResolvedListener(ServicesEntered[k].GoName)
                 /\ instrs[k].params.Listener # <<>>
           /\ (fatal = "no listener set for service" =>
                 /\ pc = "exit" /\ InFile /\ si <= Len(file.Services)
                 /\ ResolvedListener(service.GoName) = <<>>)
           /\ (pc = "done" =>
                 Len(ServicesEntered) = Len(ServicesOfFiles(1, Len(files))))

\* a run that resolved one service from its entry and one from the default
C3_Witness ==
    /\ ~jsStubs /\ pc = "done" /\ defaultLis # <<>>
    /\ \E a, b \in 1..Len(emitted) :
          /\ IsServiceInstr(emitted[a]) /\ IsServiceInstr(emitted[b])
          /\ emitted[a].params.Listener = defaultLis
          /\ HasEntry(ToLower(emitted[a].params.ServiceName))
          /\ emitted[b].params.Listener # defaultLis

C3_WitnessFatal ==
    /\ fatal = "no listener set for service"
    /\ HasEntry(ToLower(service.GoName))

----------------------------------------------------------------------------
(* C4, C9 *)

RECURSIVE FirstSeen(_, _)
FirstSeen(s, acc) ==
    IF s = <<>> THEN acc
    ELSE FirstSeen(Tail(s),
             IF Head(s) \in Range(acc) THEN acc ELSE Append(acc, Head(s)))

\* the listeners the service instructions emitted so far carry, in order
ResolvedSoFar(upto) ==
    LET instrs == SelectSeq(SubSeq(emitted, 1, upto), IsServiceInstr)
    IN [k \in 1..Len(instrs) |-> instrs[k].params.Listener]

\* the values of the listeners mapping of the configuration
ConfiguredListeners ==
    {EntryValue(TokenKey(t[2])) : t \in ListenerTokens}

C9_RegistryHasNoDuplicate ==
    \A i \in 1..Len(emitted) :
       IsListenersInstr(emitted[i]) =>
          LET ls == emitted[i].params.Listeners
          IN \A a, b \in 1..Len(ls) : a # b => ls[a] # ls[b]

\* two services configured with the same listener, registered once
C9_Witness ==
    /\ Get(param, "listeners") = <<"f", "=", "L", " ", "b", "=", "L">>
    /\ \E i \in 1..Len(emitted) :
          /\ IsListenersInstr(emitted[i])
          /\ emitted[i].params.Listeners = << <<"L">> >>

----------------------------------------------------------------------------
(* C5 *)

\* the configuration asks for the mem-RPC scaffolding
MemRPCRequested == Get(param, "mem_rpc") = <<"1">>

\* the instructions emitted into the generated files of schema file k
InstrsOfFile(k) ==
    LET OfK(i) == i.importPath = files[k].GoImportPath
    IN SelectSeq(emitted, OfK)

----------------------------------------------------------------------------
(* C6 *)

IsPrefix(s, t) == Len(s) <= Len(t) /\ SubSeq(t, 1, Len(s)) = s

\* the four fatal conditions, at the point where the code tests each
FatalCondition ==
    \/ pc \in {"mobile", "js"} /\ pkg = <<>>
    \/ pc = "mobile" /\ targetPkg = <<>>
    \/ /\ pc = "mobile_service" /\ si <= Len(file.Services)
       /\ ResolvedListener(service.GoName) = <<>>
    \/ /\ pc = "mobile_method" /\ mi <= Len(service.Methods)
       /\ ClientOnly(method)

\* C6: a step taken where a fatal condition holds raises the fatal and emits
\* nothing; once a fatal is raised no further step is taken, so nothing is
\* emitted for the remaining methods, services and files nor for mem-RPC;
\* and every step leaves what was emitted before it in place.
C6_FatalStopsTheRun ==
    [][ /\ FatalCondition => (fatal' # "" /\ pc' = "exit" /\ emitted' = emitted)
        /\ fatal # "" => UNCHANGED vars
        /\ IsPrefix(emitted, emitted') ]_vars

\* a fatal raised with instructions emitted, and methods, files and mem-RPC
\* still to come
C6_Witness ==
    /\ fatal = "unexpected method type" /\ pc = "exit"
    /\ MemRPCRequested
    /\ Len(emitted) >= 3
    /\ mi < Len(service.Methods)
    /\ fi < Len(files) /\ files[fi + 1].Generate

----------------------------------------------------------------------------
(* C11 *)

\* the lines of a text that ends each of them with a newline
RECURSIVE LinesOf(_)
LinesOf(t) ==
    IF t = <<>> THEN <<>>
    ELSE LET n == CHOOSE n \in 1..Len(t) :
                     t[n] = "\n" /\ \A j \in 1..(n - 1) : t[j] # "\n"
         IN <<SubSeq(t, 1, n - 1)>> \o LinesOf(SubSeq(t, n + 1, Len(t)))

\* the raw comment has a first newline, and what follows it is a sequence of
\* non-empty lines, each ended by a newline
WellFormedBlock(raw) ==
    /\ "\n" \in Range(raw)
    /\ LET rem == AfterFirstNewline(raw)
       IN /\ rem # <<>>
          /\ rem[Len(rem)] = "\n"
          /\ \A k \in 1..Len(LinesOf(rem)) : LinesOf(rem)[k] # <<>>

\* C11, for the blocks that are sequences of non-empty lines: in the
\* documentation string stored for the location last visited every newline is
\* followed by the line-comment prefix "// ", and no space stands immediately
\* before such a newline (the space of the leading "// " apart): trailing
\* spaces are removed entirely, for runs of any length.
C11_TrailingSpacesRemoved ==
    (li > 0 /\ stored /\ WellFormedBlock(loc)) =>
        LET key == SubSeq(AfterFirstNewline(loc), 1,
                          FirstOrZero(AfterFirstNewline(loc), " "))
            d == godoc[key]
        IN \A k \in 1..Len(d) :
              d[k] = "\n" =>
                 /\ k + 3 <= Len(d)
                 /\ SubSeq(d, k + 1, k + 3) = <<"/", "/", " ">>
                 /\ (k > 4 => d[k - 1] # " ")

----------------------------------------------------------------------------
(* C12 *)

\* the text of s after its last "/", all of s when it holds none
LastSegment(s) ==
    IF "/" \notin Range(s) THEN s
    ELSE LET k == CHOOSE n \in 1..Len(s) :
                     s[n] = "/" /\ \A j \in (n + 1)..Len(s) : s[j] # "/"
         IN SubSeq(s, k + 1, Len(s))

PackageName == Get(param, "package_name")
TargetPackage == Get(param, "target_package")
JSMode == Get(param, "js_stubs") = <<"1">>

OriginatingPackage(m) == LastSegment(m.InputImportPath)
QualifiedName(m) == OriginatingPackage(m) \o <<".">> \o m.InputGoName

\* the methods of the per-method records emitted so far, each with the
\* RequestType its record carries
NativeTyped ==
    LET instrs == SelectSeq(emitted, IsMethodInstr)
    IN { [method |-> MethodsPast[k].method,
          type |-> instrs[k].params.RequestType] : k \in 1..Len(instrs) }

JSTypedOf(k) ==
    LET kept == SelectSeq(ServicesPast[k].Methods, NotClientStreaming)
        listed == SelectSeq(emitted, IsJSInstr)[k].params.Methods
    IN { [method |-> kept[n], type |-> listed[n].RequestType] :
            n \in 1..Len(listed) }

JSTyped == UNION { JSTypedOf(k) : k \in 1..Len(SelectSeq(emitted, IsJSInstr)) }

TypedMethods == IF JSMode THEN JSTyped ELSE NativeTyped

\* C12 as stated: the input type name of a per-method record is qualified
\* with its originating package name if and only if that package differs from
\* the target package, and is the bare name otherwise (for runs that are given
\* a target package).
C12_Original ==
    TargetPackage # <<>> =>
        \A t \in TypedMethods :
            t.type =
                IF OriginatingPackage(t.method) # LastSegment(TargetPackage)
                THEN QualifiedName(t.method)
                ELSE t.method.InputGoName

\* C12: the input type name of a per-method record, native or JS, is
\* qualified with the last segment of the input type's import path if and
\* only if that segment differs from package_name, and is the bare name
\* otherwise; target_package plays no part.
C12_QualifiedUnlessPackageName ==
    \A t \in TypedMethods :
        t.type = IF OriginatingPackage(t.method) # PackageName
                 THEN QualifiedName(t.method)
                 ELSE t.method.InputGoName

\* a finished native run whose records carry a bare name and a name
\* qualified with the very package target_package ends in
C12_Witness ==
    /\ pc = "done" /\ ~JSMode
    /\ \E t \in TypedMethods : t.type = t.method.InputGoName
    /\ \E t \in TypedMethods :
          /\ t.type = QualifiedName(t.method)
          /\ OriginatingPackage(t.method) = LastSegment(TargetPackage)

\* the same in a finished JS run
C12_WitnessJS ==
    /\ pc = "done" /\ JSMode
    /\ \E t \in TypedMethods : t.type = t.method.InputGoName
    /\ \E t \in TypedMethods :
          /\ t.type = QualifiedName(t.method)
          /\ OriginatingPackage(t.method) = LastSegment(TargetPackage)

----------------------------------------------------------------------------
(* C13 *)

\* C13: in native mode, for a non-empty target_package, the TargetName of
\* every service-scaffold instruction is the final "/"-separated segment of
\* target_package: the whole value when it holds no "/", and the text after
\* the "/" when its only "/" is its first character.
C13_TargetNameIsFinalSegment ==
    (~JSMode /\ TargetPackage # <<>>) =>
        \A i \in 1..Len(emitted) :
            IsServiceInstr(emitted[i]) =>
                emitted[i].params.TargetName = LastSegment(TargetPackage)

====
